---- MODULE Spec2Model ----
(***************************************************************************)
(* One-way portal renderer (PortalManager): the facade operations, the     *)
(* per-level stencil recursion of render() and the effect of every draw    *)
(* submission on the colour, depth and stencil planes.                     *)
(*                                                                         *)
(* Poses are rigid transforms with integer translations and quarter-turn   *)
(* rotations about the vertical axis.  The rasteriser is the renderer's:   *)
(* which pixels a surface covers from a camera, and at which depth, is an  *)
(* input of each submission; the stencil test, the depth test and the      *)
(* write masks applied to those fragments are the materials' settings.     *)
(*                                                                         *)
(* The multiplayer gallery (server and MultiplayerManager clients) is a    *)
(* second specification, NetSpec, over the same variables: sockets with    *)
(* fresh ids, events delivered in order per socket, the players map of the *)
(* server and the remotePlayers map of each client.                        *)
(***************************************************************************)
EXTENDS Integers, Sequences, FiniteSets, TLC

\* ------------------------------------------------------------------ bounds
\* render() is explored for recursion depths up to this one
MaxRenderDepth == 3
\* the server hands out this many socket ids (connections and reconnections)
MaxSockets == 3
\* a client has at most this many position updates under way
MaxInFlight == 1
\* the portal math is evaluated on poses with coordinates up to this one
MaxCoord == 1
\* sockets emit while fewer events than this are under way
MaxUnderWay == 2
\* the pair manager is given at most this many portal pairs
MaxPairs == 1

\* ------------------------------------------------------- program constants
MinRecursionDepth == 1
MaxRecursionDepth == 10
DefaultRecursionDepth == 3
StencilModulus == 256

\* ---------------------------------------------------------- the framebuffer
\* the stencil test, the depth test and the writes of a draw act on each
\* pixel on its own, so one pixel carries every case a frame can show
Pixels == {"a"}
\* depth values a fragment can have, nearest first
FragDepths == {0, 1, 2}
\* the depth of the portal surface's fragments
PortalDepths == {1}
\* the value a depth clear writes (the far plane)
DepthClear == 1 + CHOOSE d \in FragDepths : \A e \in FragDepths : e <= d

\* ------------------------------------------------------------ rigid poses
Vec(x, y, z) == <<x, y, z>>
VAdd(a, b) == <<a[1] + b[1], a[2] + b[2], a[3] + b[3]>>
VSub(a, b) == <<a[1] - b[1], a[2] - b[2], a[3] - b[3]>>
VNeg(a) == <<0 - a[1], 0 - a[2], 0 - a[3]>>
VDot(a, b) == a[1] * b[1] + a[2] * b[2] + a[3] * b[3]

\* rotation of v by k quarter turns about +Y (makeRotationY(k * PI / 2))
RotY(k, v) ==
    CASE k % 4 = 0 -> v
      [] k % 4 = 1 -> <<v[3], v[2], 0 - v[1]>>
      [] k % 4 = 2 -> <<0 - v[1], v[2], 0 - v[3]>>
      [] k % 4 = 3 -> <<0 - v[3], v[2], v[1]>>

Pose(pos, yaw) == [pos |-> pos, yaw |-> yaw % 4]
\* Matrix4.multiply on rigid transforms
Compose(A, B) == Pose(VAdd(RotY(A.yaw, B.pos), A.pos), A.yaw + B.yaw)
\* Matrix4.invert on a rigid transform
Inverse(A) == Pose(RotY(4 - A.yaw, VNeg(A.pos)), 4 - A.yaw)
\* _rotY180
RotY180 == Pose(Vec(0, 0, 0), 2)

\* mutant: the half turn about the vertical axis is left out
PortalCameraPose_NoFlip(cam, portal, ref) ==
    Compose(Compose(Pose(ref.pos, ref.yaw), Inverse(Pose(portal.pos, portal.yaw))),
            Pose(cam.pos, cam.yaw))

\* the pose updatePortalCamera gives the portal camera
PortalCameraPose(cam, portal, ref) ==
    Compose(Compose(Compose(Pose(ref.pos, ref.yaw), RotY180),
                    Inverse(Pose(portal.pos, portal.yaw))),
            Pose(cam.pos, cam.yaw))

\* mutant: the plane faces the object's local -Z
PlaneNormal_Back(obj) == RotY(obj.yaw, Vec(0, 0, 0 - 1))

\* getPlaneFromObject: normal = local +Z turned by the object's quaternion,
\* through the object's world position
PlaneNormal(obj) == RotY(obj.yaw, Vec(0, 0, 1))
\* Plane.distanceToPoint for getPlaneFromObject(obj)
DistanceToPoint(obj, point) == VDot(PlaneNormal(obj), VSub(point, obj.pos))

\* ------------------------------------------------------------- the objects
\* a THREE.PerspectiveCamera: pose and projection.  The projection is the
\* viewer's, with the number of oblique clips applied on top of it.
Camera(pos, yaw, oblique) == [pos |-> pos, yaw |-> yaw % 4, oblique |-> oblique]
\* new THREE.PerspectiveCamera()
NewCamera == Camera(Vec(0, 0, 0), 0, 0)

\* an Object3D in the scene (portal surface, reference point)
Object3D(pos, yaw) == [set |-> TRUE, pos |-> pos, yaw |-> yaw % 4]
\* null
NoObject == [set |-> FALSE, pos |-> Vec(0, 0, 0), yaw |-> 0]

\* the stencil state of a material
StencilState(write, ref, func, zpass) ==
    [stencilWrite |-> write, stencilRef |-> ref, stencilFunc |-> func,
     stencilFail |-> "keep", stencilZFail |-> "keep", stencilZPass |-> zpass]
\* a material as three.js creates it
DefaultStencil == StencilState(FALSE, 0, "always", "keep")

Material(colorWrite, depthWrite, st) ==
    [colorWrite |-> colorWrite, depthWrite |-> depthWrite,
     depthTest |-> TRUE, depthFunc |-> "lessEqual", stencil |-> st]

\* ------------------------------------------------------------ the inputs
\* the main cameras the application hands over, all facing -X: at the
\* origin and at x = 1 (in front of the portal), at x = -5 (behind the
\* portal plane) and at x = -3 (on the portal plane)
MainCameras == { Camera(Vec(0, 0, 0), 1, 0),
                 Camera(Vec(1, 0, 0), 1, 0),
                 Camera(Vec(0 - 5, 0, 0), 1, 0),
                 Camera(Vec(0 - 3, 0, 0), 1, 0) }
\* the portal surface: at x = -3 facing +X
PortalSurfaces == { Object3D(Vec(0 - 3, 0, 0), 1) }
\* reference points facing -X: at x = +3 (each level steps 6 further in front
\* of the portal) and at x = -5 (each level steps 2 towards the portal plane:
\* from the origin the level-1 camera is behind it, from x = 1 on it)
ReferencePoints == { Object3D(Vec(3, 0, 0), 3),
                     Object3D(Vec(0 - 5, 0, 0), 3) }
\* what the portal mesh is attached to when it is handed to setupPortal: the
\* scene (the application added it), or nothing (as createViewPortal returns it)
MeshParents == {"scene", "none"}
\* options.recursionDepth of the constructor; 0 stands for an absent option
OptionDepths == 0 .. MaxRenderDepth
\* arguments of setRecursionDepth
DepthArgs == {0 - 1, 0, 2, MaxRecursionDepth + 2}

\* the browser tabs that open the gallery
Clients == {"c1", "c2"}
\* socket.id of a connection; 0 stands for null
SocketIds == 1 .. MaxSockets

Min(a, b) == IF a < b THEN a ELSE b
Max(a, b) == IF a > b THEN a ELSE b

VARIABLES
    enabled,          \* this.enabled
    recursionDepth,   \* this.recursionDepth
    portalCameras,    \* this.portalCameras (level L uses portalCameras[L + 1])
    mainCamera,       \* this.mainCamera
    viewPortal,       \* this.viewPortal
    referencePoint,   \* this.referencePoint
    portalVisible,    \* this.viewPortal.visible
    portalMaterial,   \* this.viewPortal.material
    portalParent,     \* the scene this.viewPortal is attached to
    sceneStencil,     \* the stencil state of the materials of this.scene
    autoClear,        \* this.renderer.autoClear
    stencil, depth, color,   \* the planes of the framebuffer
    pc,               \* where render() stands
    level,            \* the level argument of the running _renderPortalLevel
    portalFrags,      \* the portal surface's fragments per level in progress
    path,             \* the path the last render() call took
    log,              \* the renderer calls and steps of the render() of this frame
    players,          \* server: the keys of the players map
    socketOf,         \* the id of each client's open socket (0: none)
    nextSocket,       \* the id the next connection gets
    isConnected,      \* client: this.isConnected
    localPlayerId,    \* client: this.localPlayerId (0: null)
    remotePlayers,    \* client: the keys of this.remotePlayers
    toServer,         \* the events a client emitted, not yet handled by the server
    toClient,         \* the events emitted to a client, not yet handled by it
    joinHandled,      \* server: 'player-join' has been handled on the open socket
    callArgs,         \* portal math: the function called and its arguments
    callResult,       \* portal math: what the call returned or wrote
    portals,          \* pair manager: this.portals
    portalIdx         \* pair manager: the place of render()'s loop in this.portals

vars == <<enabled, recursionDepth, portalCameras, mainCamera, viewPortal,
          referencePoint, portalVisible, portalMaterial, portalParent,
          sceneStencil, autoClear, stencil, depth, color, pc, level,
          portalFrags, path, log, players, socketOf, nextSocket, isConnected,
          localPlayerId, remotePlayers, toServer, toClient, joinHandled, callArgs,
          callResult, portals, portalIdx>>

managerVars == <<enabled, recursionDepth, portalCameras, mainCamera,
                 viewPortal, referencePoint>>
portalVars == <<portalVisible, portalMaterial, portalParent>>
bufferVars == <<stencil, depth, color>>
renderVars == <<pc, level, portalFrags, path, log>>
\* the gallery server and its clients
netVars == <<players, socketOf, nextSocket, isConnected, localPlayerId,
             remotePlayers, toServer, toClient, joinHandled>>
\* a call of one of the portal math functions
mathVars == <<callArgs, callResult>>
\* the portals of the pair manager
pairVars == <<portals, portalIdx>>
\* the portal manager, its scene and its framebuffer
portalState == <<managerVars, portalVars, sceneStencil, autoClear, bufferVars,
                 renderVars>>

\* ------------------------------------------------------------ constructor
ClearedStencil == [p \in Pixels |-> 0]
ClearedDepth == [p \in Pixels |-> DepthClear]
ClearedColor == [p \in Pixels |-> <<>>]

\* this.recursionDepth = options.recursionDepth || 3
OptionDepth(o) == IF o = 0 THEN DefaultRecursionDepth ELSE o

\* server: players = new Map(); client: the constructor of MultiplayerManager
NetInit ==
    /\ players = {}
    /\ socketOf = [c \in Clients |-> 0]
    /\ nextSocket = 1
    /\ isConnected = [c \in Clients |-> FALSE]
    /\ localPlayerId = [c \in Clients |-> 0]
    /\ remotePlayers = [c \in Clients |-> {}]
    /\ toServer = [c \in Clients |-> <<>>]
    /\ toClient = [c \in Clients |-> <<>>]
    /\ joinHandled = [c \in Clients |-> FALSE]

\* the scene's materials, the portal surface and the renderer before the
\* first frame
RendererInit ==
    /\ portalVisible = TRUE
    /\ portalMaterial = "original"
    /\ portalParent = "scene"
    /\ sceneStencil = DefaultStencil
    /\ autoClear = TRUE
    /\ stencil = ClearedStencil
    /\ depth = ClearedDepth
    /\ color = ClearedColor
    /\ pc = "idle"
    /\ level = 0
    /\ portalFrags = <<>>
    /\ path = "none"
    /\ log = <<>>

\* no math function is being looked at
NoCall == [fn |-> "none"]
NoResult == [done |-> FALSE]

Init ==
    /\ NetInit
    /\ callArgs = NoCall
    /\ callResult = NoResult
    /\ portals = <<>>
    /\ portalIdx = 0
    /\ \E o \in OptionDepths :
          /\ recursionDepth = OptionDepth(o)
          /\ portalCameras = [i \in 1 .. OptionDepth(o) |-> NewCamera]
    /\ enabled \in BOOLEAN
    /\ mainCamera \in MainCameras
    /\ viewPortal = NoObject
    /\ referencePoint = NoObject
    /\ RendererInit

\* ----------------------------------------------------------- the renderer
\* gl.stencilFunc: the test runs only for a material with stencilWrite
StencilTest(st, s) ==
    \/ ~st.stencilWrite
    \/ st.stencilFunc = "always"
    \/ st.stencilFunc = "equal" /\ s = st.stencilRef

\* gl.depthFunc: materials keep the default LessEqualDepth
DepthTest(mat, z, d) ==
    \/ ~mat.depthTest
    \/ mat.depthFunc = "lessEqual" /\ z <= d

\* gl.stencilOp on an 8-bit stencil plane
StencilOp(op, s) ==
    CASE op = "keep" -> s
      [] op = "incrWrap" -> (s + 1) % StencilModulus
      [] op = "decrWrap" -> (s + StencilModulus - 1) % StencilModulus

\* the planes as a submission that starts with autoClear = ac finds them
Planes(ac) ==
    IF ac THEN [stencil |-> ClearedStencil, depth |-> ClearedDepth, color |-> ClearedColor]
          ELSE [stencil |-> stencil, depth |-> depth, color |-> color]

\* one draw: the fragments frags (pixel -> depth) of a surface with material
\* mat, written with colour shade onto the planes B
Draw(frags, mat, shade, B) ==
    LET covered(p) == p \in DOMAIN frags
        sPass(p) == covered(p) /\ StencilTest(mat.stencil, B.stencil[p])
        zPass(p) == sPass(p) /\ DepthTest(mat, frags[p], B.depth[p])
        sOp(p) == IF ~mat.stencil.stencilWrite THEN "keep"
                  ELSE IF ~sPass(p) THEN mat.stencil.stencilFail
                  ELSE IF ~zPass(p) THEN mat.stencil.stencilZFail
                  ELSE mat.stencil.stencilZPass
    IN [stencil |-> [p \in Pixels |->
                       IF covered(p) THEN StencilOp(sOp(p), B.stencil[p])
                                     ELSE B.stencil[p]],
        depth   |-> [p \in Pixels |->
                       IF zPass(p) /\ mat.depthWrite THEN frags[p] ELSE B.depth[p]],
        color   |-> [p \in Pixels |->
                       IF zPass(p) /\ mat.colorWrite THEN shade ELSE B.color[p]]]

\* the fragments a scene can produce, and those the portal surface can
SceneFrags == UNION { [S -> FragDepths] : S \in SUBSET Pixels }
PortalFrags == UNION { [S -> PortalDepths] : S \in SUBSET Pixels }

\* an entry of the log: the step, its level, the camera it uses (0 is the
\* main camera, k >= 1 is portalCameras[k]) and the settings it ran under
Entry(op, lvl, cam, scn, ac, vis, mat, sst) ==
    [op |-> op, level |-> lvl, cam |-> cam, scene |-> scn, autoClear |-> ac,
     portalVisible |-> vis, portalMaterial |-> mat, sceneStencil |-> sst]

\* ---------------------------------------------------------------- facade
\* mutant: the upper limit of the clamp is missing
ClampDepth_NoUpper(n) == Max(MinRecursionDepth, n)

\* Math.max(1, Math.min(10, depth))
ClampDepth(n) == Max(MinRecursionDepth, Min(MaxRecursionDepth, n))

\* while (this.portalCameras.length < newDepth) push(new camera)
GrowPool(pool, n) ==
    IF Len(pool) < n THEN pool \o [i \in 1 .. (n - Len(pool)) |-> NewCamera]
                     ELSE pool

SetRecursionDepth(n) ==
    /\ pc = "idle"
    /\ portalCameras' = GrowPool(portalCameras, ClampDepth(n))
    /\ recursionDepth' = ClampDepth(n)
    /\ UNCHANGED <<enabled, mainCamera, viewPortal, referencePoint>>
    /\ UNCHANGED <<portalVars, sceneStencil, autoClear, bufferVars, renderVars>>
    /\ UNCHANGED netVars
    /\ UNCHANGED mathVars
    /\ UNCHANGED pairVars

\* setEnabled has no condition: it also runs from a callback the renderer
\* invokes between the passes of a render() call
SetEnabled(b) ==
    /\ enabled' = b
    /\ UNCHANGED <<recursionDepth, portalCameras, mainCamera, viewPortal, referencePoint>>
    /\ UNCHANGED <<portalVars, sceneStencil, autoClear, bufferVars, renderVars>>
    /\ UNCHANGED netVars
    /\ UNCHANGED mathVars
    /\ UNCHANGED pairVars

SetMainCamera(c) ==
    /\ pc = "idle"
    /\ mainCamera' = c
    /\ UNCHANGED <<enabled, recursionDepth, portalCameras, viewPortal, referencePoint>>
    /\ UNCHANGED <<portalVars, sceneStencil, autoClear, bufferVars, renderVars>>
    /\ UNCHANGED netVars
    /\ UNCHANGED mathVars
    /\ UNCHANGED pairVars

\* setupPortal with a portal mesh, attached to parent, and a reference point;
\* originalMaterial is the material the mesh has now
SetupPortal(mesh, ref, parent) ==
    /\ pc = "idle"
    /\ viewPortal' = mesh
    /\ referencePoint' = ref
    /\ portalVisible' = TRUE
    /\ portalMaterial' = "original"
    /\ portalParent' = parent
    /\ UNCHANGED <<enabled, recursionDepth, portalCameras, mainCamera>>
    /\ UNCHANGED <<sceneStencil, autoClear, bufferVars, renderVars>>
    /\ UNCHANGED netVars
    /\ UNCHANGED mathVars
    /\ UNCHANGED pairVars

\* mutant: a point on the plane counts as in front
IsPointInFrontOfPortal_NonStrict(point) == DistanceToPoint(viewPortal, point) >= 0

\* isPointInFrontOfPortal
IsPointInFrontOfPortal(point) == DistanceToPoint(viewPortal, point) > 0

\* ---------------------------------------------------------------- render
\* mutant: every level is solved from the main camera
ViewCamera_Main(lvl) == mainCamera

\* the camera level lvl is rendered from: viewCamera of _renderPortalLevel
ViewCamera(lvl) == IF lvl = 0 THEN mainCamera ELSE portalCameras[lvl]

\* the conditions under which render() goes on to the portal passes
UsePortalPath ==
    /\ enabled
    /\ viewPortal.set
    /\ referencePoint.set
    /\ IsPointInFrontOfPortal(mainCamera.pos)

\* the material of the materials of this.scene
SceneMaterial(st) == Material(TRUE, TRUE, st)
\* mutant: the materials' stencilWrite is not switched on
SceneStencilTest_NoWrite(ref) == StencilState(FALSE, ref, "equal", "keep")

\* mutant: the scene materials pass the stencil test everywhere
SceneStencilTest_Always(ref) == StencilState(TRUE, ref, "always", "keep")

\* _setSceneStencilTest(ref, THREE.EqualStencilFunc)
SceneStencilTest(ref) == StencilState(TRUE, ref, "equal", "keep")
\* mutant: _clearSceneStencilTest leaves the materials as they are
ClearedSceneStencil_Keep(st) == st

\* _clearSceneStencilTest
ClearedSceneStencil(st) == [st EXCEPT !.stencilWrite = FALSE]
\* mutant: the mark pass does not test the stencil value
StencilWriterMat_Always(lvl) ==
    Material(FALSE, FALSE, StencilState(TRUE, lvl, "always", "incrWrap"))

\* mutant: the mark pass writes depth
StencilWriterMat_DepthWrite(lvl) ==
    Material(FALSE, TRUE, StencilState(TRUE, lvl, "equal", "incrWrap"))

\* stencilWriterMat of step 1
StencilWriterMat(lvl) ==
    Material(FALSE, FALSE, StencilState(TRUE, lvl, "equal", "incrWrap"))
\* depthOnlyMat of step 6
DepthOnlyMat(lvl) ==
    Material(FALSE, TRUE, StencilState(TRUE, lvl + 1, "equal", "decrWrap"))

\* render() without portal passes: one submission of the scene
RenderPlain ==
    /\ pc = "idle"
    /\ ~UsePortalPath
    /\ \E sf \in SceneFrags :
         LET r == Draw(sf, SceneMaterial(sceneStencil), <<0>>, Planes(autoClear))
         IN /\ stencil' = r.stencil
            /\ depth' = r.depth
            /\ color' = r.color
    /\ log' = <<Entry("plain", 0, 0, "main", autoClear, portalVisible,
                      portalMaterial, sceneStencil)>>
    /\ path' = "plain"
    /\ pc' = "returned"
    /\ UNCHANGED <<managerVars, portalVars, sceneStencil, autoClear, level, portalFrags>>
    /\ UNCHANGED netVars
    /\ UNCHANGED mathVars
    /\ UNCHANGED pairVars

\* mutant: render() leaves the renderer's autoClear on
AutoClearDuringPortal_On == TRUE

\* this.renderer.autoClear = false, before the explicit clear
AutoClearDuringPortal == FALSE

\* render(): autoClear off, the full clear, and the call of level 0
RenderPortal ==
    /\ pc = "idle"
    /\ UsePortalPath
    /\ recursionDepth <= MaxRenderDepth
    /\ autoClear' = AutoClearDuringPortal
    /\ stencil' = ClearedStencil
    /\ depth' = ClearedDepth
    /\ color' = ClearedColor
    /\ log' = << Entry("clear", 0, 0, "none", AutoClearDuringPortal, portalVisible,
                       portalMaterial, sceneStencil),
                 Entry("call", 0, 0, "none", AutoClearDuringPortal, portalVisible,
                       portalMaterial, sceneStencil) >>
    /\ path' = "portal"
    /\ pc' = "mark"
    /\ level' = 0
    /\ portalFrags' = <<>>
    /\ UNCHANGED <<managerVars, portalVars, sceneStencil>>
    /\ UNCHANGED netVars
    /\ UNCHANGED mathVars
    /\ UNCHANGED pairVars

\* mutant: the nested call is a tail call, the callers' step 6 is skipped
ReturnTo_TailCall(lvl) == [pc |-> "final", level |-> 0]

\* where control is once _renderPortalLevel(lvl, .) has returned
ReturnTo(lvl) ==
    IF lvl = 0 THEN [pc |-> "final", level |-> 0]
               ELSE [pc |-> "restore", level |-> lvl - 1]

\* mutant: a level started after enabled went false returns at once
LevelRuns_Cancel(lvl) ==
    /\ enabled
    /\ ~(lvl >= recursionDepth)
    /\ viewPortal.set
    /\ referencePoint.set

\* the guards of _renderPortalLevel
LevelRuns(lvl) ==
    /\ ~(lvl >= recursionDepth)
    /\ viewPortal.set
    /\ referencePoint.set

\* mutant: the portal surface is left in the helper scene
PortalAfterPass_InHelper ==
    [visible |-> TRUE, material |-> "original", parent |-> "helper"]

\* the portal surface after a helper-scene pass: taken out of the helper
\* scene, its material put back, added to the main scene
PortalAfterPass ==
    [visible |-> TRUE, material |-> "original", parent |-> "scene"]

\* mutant: the oblique clip is applied after the scene is drawn
AfterStep_ClipLast(step) ==
    CASE step = "mark" -> "solve"
      [] step = "solve" -> "draw"
      [] step = "draw" -> "clip"
      [] step = "clip" -> "recurse"

\* mutant: the pose solve is left out
AfterStep_SkipSolve(step) ==
    CASE step = "mark" -> "clip"
      [] step = "solve" -> "clip"
      [] step = "clip" -> "draw"
      [] step = "draw" -> "recurse"

\* the statement that follows each step of _renderPortalLevel
AfterStep(step) ==
    CASE step = "mark" -> "solve"
      [] step = "solve" -> "clip"
      [] step = "clip" -> "draw"
      [] step = "draw" -> "recurse"

\* mutant: every level uses the first camera of the pool
PoolIndex_Shared(lvl) == 1

\* the place of portalCam in the pool: this.portalCameras[level]
PoolIndex(lvl) == lvl + 1

\* step 1: the portal surface alone, in the helper scene, marks the stencil
MarkPass ==
    /\ pc = "mark"
    /\ IF ~LevelRuns(level)
       THEN /\ pc' = ReturnTo(level).pc
            /\ level' = ReturnTo(level).level
            /\ UNCHANGED <<bufferVars, portalFrags, log, portalVars>>
       ELSE /\ \E pf \in PortalFrags :
                 LET r == Draw(pf, StencilWriterMat(level), <<level>>, Planes(autoClear))
                 IN /\ stencil' = r.stencil
                    /\ depth' = r.depth
                    /\ color' = r.color
                    /\ portalFrags' = Append(portalFrags, pf)
            /\ log' = Append(log, Entry("mark", level, level, "helper", autoClear,
                                        TRUE, "stencilWriter", sceneStencil))
            /\ portalMaterial' = PortalAfterPass.material
            /\ portalVisible' = PortalAfterPass.visible
            /\ portalParent' = PortalAfterPass.parent
            /\ pc' = AfterStep("mark")
            /\ level' = level
    /\ UNCHANGED <<managerVars, sceneStencil, autoClear, path>>
    /\ UNCHANGED netVars
    /\ UNCHANGED mathVars
    /\ UNCHANGED pairVars

\* mutant: the projection is copied from the viewer's camera at every level
UpdatePortalCamera_FromMain(view, portal, ref) ==
    LET m == PortalCameraPose(view, portal, ref)
    IN Camera(m.pos, m.yaw, mainCamera.oblique)

\* updatePortalCamera: pose from the view camera, projection copied from it
UpdatePortalCamera(view, portal, ref) ==
    LET m == PortalCameraPose(view, portal, ref)
    IN Camera(m.pos, m.yaw, view.oblique)

\* step 2; portalCam is this.portalCameras[level], which is undefined when
\* the pool is shorter: updatePortalCamera then throws a TypeError at
\* portalCamera.matrixWorld, and the exception leaves render()
SolvePose ==
    /\ pc = "solve"
    /\ IF PoolIndex(level) \in DOMAIN portalCameras
       THEN /\ portalCameras' = [portalCameras EXCEPT ![PoolIndex(level)] =
                   UpdatePortalCamera(ViewCamera(level), viewPortal, referencePoint)]
            /\ log' = Append(log, Entry("solve", level, PoolIndex(level), "none",
                                        autoClear, portalVisible, portalMaterial,
                                        sceneStencil))
            /\ pc' = AfterStep("solve")
            /\ path' = path
       ELSE /\ portalCameras' = portalCameras
            /\ log' = Append(log, Entry("throw", level, PoolIndex(level), "none",
                                        autoClear, portalVisible, portalMaterial,
                                        sceneStencil))
            /\ pc' = "returned"
            /\ path' = "threw"
    /\ UNCHANGED <<enabled, recursionDepth, mainCamera, viewPortal, referencePoint>>
    /\ UNCHANGED <<portalVars, sceneStencil, autoClear, bufferVars, level, portalFrags>>
    /\ UNCHANGED netVars
    /\ UNCHANGED mathVars
    /\ UNCHANGED pairVars

\* applyObliqueClipping: the third row of the projection is replaced
ApplyObliqueClipping(cam) == [cam EXCEPT !.oblique = cam.oblique + 1]

\* step 3
ObliqueClip ==
    /\ pc = "clip"
    /\ portalCameras' = [portalCameras EXCEPT ![PoolIndex(level)] =
           ApplyObliqueClipping(portalCameras[PoolIndex(level)])]
    /\ log' = Append(log, Entry("clip", level, PoolIndex(level), "none", autoClear,
                                portalVisible, portalMaterial, sceneStencil))
    /\ pc' = AfterStep("clip")
    /\ UNCHANGED <<enabled, recursionDepth, mainCamera, viewPortal, referencePoint>>
    /\ UNCHANGED <<portalVars, sceneStencil, autoClear, bufferVars, level, portalFrags, path>>
    /\ UNCHANGED netVars
    /\ UNCHANGED mathVars
    /\ UNCHANGED pairVars

\* step 4: depth cleared, the scene drawn from the portal camera where the
\* stencil equals level + 1, the portal surface hidden meanwhile
DrawScene ==
    /\ pc = "draw"
    /\ \E sf \in SceneFrags :
         LET B == [Planes(FALSE) EXCEPT !.depth = ClearedDepth]
             r == Draw(sf, SceneMaterial(SceneStencilTest(level + 1)),
                       <<level + 1>>, IF autoClear THEN Planes(TRUE) ELSE B)
         IN /\ stencil' = r.stencil
            /\ depth' = r.depth
            /\ color' = r.color
    /\ log' = log \o << Entry("clearDepth", level, PoolIndex(level), "none", autoClear,
                              portalVisible, portalMaterial, sceneStencil),
                        Entry("draw", level, PoolIndex(level), "main", autoClear,
                              FALSE, portalMaterial, SceneStencilTest(level + 1)) >>
    /\ sceneStencil' = ClearedSceneStencil(SceneStencilTest(level + 1))
    /\ portalVisible' = TRUE
    /\ pc' = AfterStep("draw")
    /\ UNCHANGED <<managerVars, portalMaterial, portalParent, autoClear, level, portalFrags, path>>
    /\ UNCHANGED netVars
    /\ UNCHANGED mathVars
    /\ UNCHANGED pairVars

\* mutant: the depth limit of step 5 is missing
Recurses_NoDepthCheck(lvl, cam) == IsPointInFrontOfPortal(cam.pos)

\* mutant: the visibility prune of step 5 is missing
Recurses_NoPrune(lvl, cam) == lvl + 1 < recursionDepth

\* the condition of step 5
Recurses(lvl, cam) ==
    /\ lvl + 1 < recursionDepth
    /\ IsPointInFrontOfPortal(cam.pos)

\* step 5
Recurse ==
    /\ pc = "recurse"
    /\ IF Recurses(level, portalCameras[PoolIndex(level)])
       THEN /\ level' = level + 1
            /\ pc' = "mark"
            /\ log' = Append(log, Entry("call", level + 1, level + 1, "none", autoClear,
                                        portalVisible, portalMaterial, sceneStencil))
       ELSE /\ level' = level
            /\ pc' = "restore"
            /\ log' = log
    /\ UNCHANGED <<managerVars, portalVars, sceneStencil, autoClear, bufferVars, portalFrags, path>>
    /\ UNCHANGED netVars
    /\ UNCHANGED mathVars
    /\ UNCHANGED pairVars

\* step 6: the portal surface alone, writing depth, takes the mark back
RestorePass ==
    /\ pc = "restore"
    /\ LET r == Draw(portalFrags[level + 1], DepthOnlyMat(level), <<level>>, Planes(autoClear))
       IN /\ stencil' = r.stencil
          /\ depth' = r.depth
          /\ color' = r.color
    /\ log' = Append(log, Entry("restore", level, level, "helper", autoClear,
                                TRUE, "depthOnly", sceneStencil))
    /\ portalMaterial' = PortalAfterPass.material
    /\ portalVisible' = PortalAfterPass.visible
    /\ portalParent' = PortalAfterPass.parent
    /\ pc' = ReturnTo(level).pc
    /\ level' = ReturnTo(level).level
    /\ UNCHANGED <<managerVars, sceneStencil, autoClear, portalFrags, path>>
    /\ UNCHANGED netVars
    /\ UNCHANGED mathVars
    /\ UNCHANGED pairVars

\* the end of render(): the main scene where the stencil is 0
FinalPass ==
    /\ pc = "final"
    /\ \E sf \in SceneFrags :
         LET r == Draw(sf, SceneMaterial(SceneStencilTest(0)), <<0>>, Planes(autoClear))
         IN /\ stencil' = r.stencil
            /\ depth' = r.depth
            /\ color' = r.color
    /\ log' = Append(log, Entry("final", 0, 0, "main", autoClear,
                                FALSE, portalMaterial, SceneStencilTest(0)))
    /\ sceneStencil' = ClearedSceneStencil(SceneStencilTest(0))
    /\ portalVisible' = TRUE
    /\ autoClear' = TRUE
    /\ pc' = "returned"
    /\ UNCHANGED <<managerVars, portalMaterial, portalParent, level, portalFrags, path>>
    /\ UNCHANGED netVars
    /\ UNCHANGED mathVars
    /\ UNCHANGED pairVars

\* the frame is over: the browser presents the drawing buffer and clears it
\* (the renderer is created without preserveDrawingBuffer)
Present ==
    /\ pc = "returned"
    /\ pc' = "idle"
    /\ stencil' = ClearedStencil
    /\ depth' = ClearedDepth
    /\ color' = ClearedColor
    /\ log' = <<>>
    /\ UNCHANGED <<managerVars, portalVars, sceneStencil, autoClear, level, portalFrags, path>>
    /\ UNCHANGED netVars
    /\ UNCHANGED mathVars
    /\ UNCHANGED pairVars

RenderStep ==
    \/ MarkPass
    \/ SolvePose
    \/ ObliqueClip
    \/ DrawScene
    \/ Recurse
    \/ RestorePass
    \/ FinalPass

Next ==
    \/ \E n \in DepthArgs : SetRecursionDepth(n)
    \/ \E b \in BOOLEAN : SetEnabled(b)
    \/ \E c \in MainCameras : SetMainCamera(c)
    \/ \E mesh \in PortalSurfaces : \E ref \in ReferencePoints :
          \E parent \in MeshParents : SetupPortal(mesh, ref, parent)
    \/ RenderPlain
    \/ RenderPortal
    \/ RenderStep
    \/ Present

Spec == Init /\ [][Next]_vars

\* ------------------------------------------------------------- dispose
\* dispose(): the portal surface and the reference point are taken out of
\* the scene and the pool is emptied; recursionDepth, enabled, viewPortal
\* and referencePoint stay as they are
Dispose ==
    /\ pc = "idle"
    /\ portalCameras' = <<>>
    /\ portalParent' = IF viewPortal.set THEN "none" ELSE portalParent
    /\ UNCHANGED <<enabled, recursionDepth, mainCamera, viewPortal, referencePoint>>
    /\ UNCHANGED <<portalVisible, portalMaterial>>
    /\ UNCHANGED <<sceneStencil, autoClear, bufferVars, renderVars>>
    /\ UNCHANGED netVars
    /\ UNCHANGED mathVars
    /\ UNCHANGED pairVars

\* the manager of the gallery as it is constructed: enabled, default depth
\* or the depth of the options, the camera at the origin
LifeInit ==
    /\ Init
    /\ enabled
    /\ mainCamera = Camera(Vec(0, 0, 0), 1, 0)

\* the calls of the manager's life: setup, depth, enabling, frames, dispose
LifeNext ==
    \/ \E n \in DepthArgs : SetRecursionDepth(n)
    \/ \E b \in BOOLEAN : SetEnabled(b)
    \/ \E mesh \in PortalSurfaces : \E ref \in ReferencePoints :
          \E parent \in MeshParents : SetupPortal(mesh, ref, parent)
    \/ RenderPlain
    \/ RenderPortal
    \/ RenderStep
    \/ Present
    \/ Dispose

LifeSpec == LifeInit /\ [][LifeNext]_vars

\* ------------------------------------------------- the multiplayer gallery
\* an event on the wire: its name, the player id and the player list it carries
Msg(type, id, ids) == [type |-> type, id |-> id, ids |-> ids]

\* socket.emit: the event joins the events under way to client c
Emit(q, c, m) == [q EXCEPT ![c] = Append(q[c], m)]
\* socket.broadcast.emit from the socket of client c: every other open socket
Broadcast(q, c, m) ==
    [d \in Clients |-> IF d # c /\ socketOf[d] # 0 THEN Append(q[d], m) ELSE q[d]]

\* the position updates of client c that are under way
InFlightMoves(c) ==
    Cardinality({ i \in DOMAIN toServer[c] : toServer[c][i].type = "player-move" })
    + Cardinality(UNION { { <<d, i>> : i \in { j \in DOMAIN toClient[d] :
                                 /\ toClient[d][j].type = "player-moved"
                                 /\ toClient[d][j].id = socketOf[c] } } :
                          d \in Clients })

\* the socket connects (or reconnects, with a new id): the client's 'connect'
\* handler sets isConnected and localPlayerId and calls joinRoom
Connect(c) ==
    /\ socketOf[c] = 0
    /\ nextSocket <= MaxSockets
    /\ socketOf' = [socketOf EXCEPT ![c] = nextSocket]
    /\ nextSocket' = nextSocket + 1
    /\ isConnected' = [isConnected EXCEPT ![c] = TRUE]
    /\ localPlayerId' = [localPlayerId EXCEPT ![c] = nextSocket]
    /\ toServer' = [toServer EXCEPT ![c] = <<Msg("player-join", nextSocket, {})>>]
    /\ toClient' = [toClient EXCEPT ![c] = <<>>]
    /\ UNCHANGED <<players, remotePlayers, joinHandled>>
    /\ UNCHANGED portalState
    /\ UNCHANGED mathVars
    /\ UNCHANGED pairVars

\* server: socket.on('player-join')
PlayerJoin(c) ==
    /\ toServer[c] # <<>>
    /\ Head(toServer[c]).type = "player-join"
    /\ players' = players \cup {socketOf[c]}
    /\ toClient' = Broadcast(Emit(toClient, c, Msg("players-list", 0, players')),
                             c, Msg("player-joined", socketOf[c], {}))
    /\ toServer' = [toServer EXCEPT ![c] = Tail(toServer[c])]
    /\ joinHandled' = [joinHandled EXCEPT ![c] = TRUE]
    /\ UNCHANGED <<socketOf, nextSocket, isConnected, localPlayerId, remotePlayers>>
    /\ UNCHANGED portalState
    /\ UNCHANGED mathVars
    /\ UNCHANGED pairVars

\* client: sendMovement, once the update interval has passed
SendMovement(c) ==
    /\ isConnected[c]
    /\ InFlightMoves(c) < MaxInFlight
    /\ toServer' = Emit(toServer, c, Msg("player-move", socketOf[c], {}))
    /\ UNCHANGED <<players, socketOf, nextSocket, isConnected, localPlayerId,
                   remotePlayers, toClient, joinHandled>>
    /\ UNCHANGED portalState
    /\ UNCHANGED mathVars
    /\ UNCHANGED pairVars

\* server: socket.on('player-move')
PlayerMove(c) ==
    /\ toServer[c] # <<>>
    /\ Head(toServer[c]).type = "player-move"
    /\ toClient' = IF socketOf[c] \in players
                   THEN Broadcast(toClient, c, Msg("player-moved", socketOf[c], {}))
                   ELSE toClient
    /\ toServer' = [toServer EXCEPT ![c] = Tail(toServer[c])]
    /\ UNCHANGED <<players, socketOf, nextSocket, isConnected, localPlayerId,
                   remotePlayers, joinHandled>>
    /\ UNCHANGED portalState
    /\ UNCHANGED mathVars
    /\ UNCHANGED pairVars

\* mutant: the server keeps the player of a closed socket
PlayersAfterDisconnect_Keep(ps, id) == ps

\* server: players.delete(socket.id) in socket.on('disconnect')
PlayersAfterDisconnect(ps, id) == ps \ {id}

\* the socket of client c closes: the server's 'disconnect' handler removes
\* the player and tells the others, the client's 'disconnect' handler resets
\* isConnected and localPlayerId; the events under way on the socket are lost
Disconnect(c) ==
    /\ socketOf[c] # 0
    /\ IF socketOf[c] \in players
       THEN /\ players' = PlayersAfterDisconnect(players, socketOf[c])
            /\ toClient' = [Broadcast(toClient, c, Msg("player-left", socketOf[c], {}))
                               EXCEPT ![c] = <<>>]
       ELSE /\ players' = players
            /\ toClient' = [toClient EXCEPT ![c] = <<>>]
    /\ toServer' = [toServer EXCEPT ![c] = <<>>]
    /\ socketOf' = [socketOf EXCEPT ![c] = 0]
    /\ isConnected' = [isConnected EXCEPT ![c] = FALSE]
    /\ localPlayerId' = [localPlayerId EXCEPT ![c] = 0]
    /\ joinHandled' = [joinHandled EXCEPT ![c] = FALSE]
    /\ UNCHANGED <<nextSocket, remotePlayers>>
    /\ UNCHANGED portalState
    /\ UNCHANGED mathVars
    /\ UNCHANGED pairVars

\* addRemotePlayer declares no footOffset (line 124 holds only the comment of
\* the declaration that updateRemotePlayer has) and no enclosing scope has one
FootOffsetInScope == FALSE

\* addRemotePlayer: returns for a known id; otherwise computes initialY from
\* footOffset, creates the prop and stores the entry.  Reading the undeclared
\* footOffset throws a ReferenceError before the entry is stored.
AddRemotePlayer(rp, id) ==
    IF id \in rp THEN rp
    ELSE IF ~FootOffsetInScope THEN rp
    ELSE rp \cup {id}

\* removeRemotePlayer
RemoveRemotePlayer(rp, id) == rp \ {id}

\* the 'players-list' handler: forEach over the list, skipping the own id;
\* the first addRemotePlayer that throws ends the loop
AddListed(rp, ids, own) ==
    IF ~FootOffsetInScope THEN rp ELSE rp \cup (ids \ {own})

\* client: the handler of the next event under way to client c
Deliver(c) ==
    /\ toClient[c] # <<>>
    /\ LET m == Head(toClient[c])
       IN remotePlayers' = [remotePlayers EXCEPT ![c] =
            CASE m.type = "players-list" -> AddListed(remotePlayers[c], m.ids, localPlayerId[c])
              [] m.type = "player-joined" -> AddRemotePlayer(remotePlayers[c], m.id)
              [] m.type = "player-left" -> RemoveRemotePlayer(remotePlayers[c], m.id)
              [] m.type = "player-moved" -> remotePlayers[c]
              [] m.type = "chat-message" -> remotePlayers[c]]
    /\ toClient' = [toClient EXCEPT ![c] = Tail(toClient[c])]
    /\ UNCHANGED <<players, socketOf, nextSocket, isConnected, localPlayerId, toServer,
                   joinHandled>>
    /\ UNCHANGED portalState
    /\ UNCHANGED mathVars
    /\ UNCHANGED pairVars

\* the gallery is served with one portal manager as the constructor leaves it
NetStart ==
    /\ Init
    /\ enabled
    /\ recursionDepth = DefaultRecursionDepth
    /\ mainCamera = Camera(Vec(0, 0, 0), 1, 0)

NetNext ==
    \/ \E c \in Clients : Connect(c)
    \/ \E c \in Clients : PlayerJoin(c)
    \/ \E c \in Clients : SendMovement(c)
    \/ \E c \in Clients : PlayerMove(c)
    \/ \E c \in Clients : Disconnect(c)
    \/ \E c \in Clients : Deliver(c)

NetSpec == NetStart /\ [][NetNext]_vars

\* ------------------------------------------- the server and any sockets
\* io.emit: the event goes to every open socket, the sender's included
EmitAll(q, m) ==
    [d \in Clients |-> IF socketOf[d] # 0 THEN Append(q[d], m) ELSE q[d]]

\* mutant: the handler does not look the sender up
HasPlayer_Any(ps, id) == TRUE

\* const player = players.get(socket.id); if (player) ...
HasPlayer(ps, id) == id \in ps

\* server: socket.on('chat-message')
ChatMessage(c) ==
    /\ toServer[c] # <<>>
    /\ Head(toServer[c]).type = "chat-message"
    /\ toClient' = IF HasPlayer(players, socketOf[c])
                   THEN EmitAll(toClient, Msg("chat-message", socketOf[c], {}))
                   ELSE toClient
    /\ toServer' = [toServer EXCEPT ![c] = Tail(toServer[c])]
    /\ UNCHANGED <<players, socketOf, nextSocket, isConnected, localPlayerId,
                   remotePlayers, joinHandled>>
    /\ UNCHANGED portalState
    /\ UNCHANGED mathVars
    /\ UNCHANGED pairVars

\* io.on('connection'): a socket opens; what it emits is up to its page
Open(c) ==
    /\ socketOf[c] = 0
    /\ nextSocket <= MaxSockets
    /\ socketOf' = [socketOf EXCEPT ![c] = nextSocket]
    /\ nextSocket' = nextSocket + 1
    /\ toServer' = [toServer EXCEPT ![c] = <<>>]
    /\ toClient' = [toClient EXCEPT ![c] = <<>>]
    /\ UNCHANGED <<players, isConnected, localPlayerId, remotePlayers, joinHandled>>
    /\ UNCHANGED portalState
    /\ UNCHANGED mathVars
    /\ UNCHANGED pairVars

\* the events the server listens to on a socket
ClientEvents == {"player-join", "player-move", "chat-message"}
\* the events under way in both directions
UnderWay ==
    Cardinality(UNION { { <<"up", d, i>> : i \in DOMAIN toServer[d] } : d \in Clients })
    + Cardinality(UNION { { <<"down", d, i>> : i \in DOMAIN toClient[d] } : d \in Clients })

\* an open socket emits one of the events, in any order
SocketEmit(c, type) ==
    /\ socketOf[c] # 0
    /\ UnderWay < MaxUnderWay
    /\ toServer' = Emit(toServer, c, Msg(type, socketOf[c], {}))
    /\ UNCHANGED <<players, socketOf, nextSocket, isConnected, localPlayerId,
                   remotePlayers, toClient, joinHandled>>
    /\ UNCHANGED portalState
    /\ UNCHANGED mathVars
    /\ UNCHANGED pairVars

ServerNext ==
    \/ \E c \in Clients : Open(c)
    \/ \E c \in Clients : \E type \in ClientEvents : SocketEmit(c, type)
    \/ \E c \in Clients : PlayerJoin(c)
    \/ \E c \in Clients : PlayerMove(c)
    \/ \E c \in Clients : ChatMessage(c)
    \/ \E c \in Clients : Disconnect(c)
    \/ \E c \in Clients : Deliver(c)

ServerSpec == NetStart /\ [][ServerNext]_vars

\* no event is under way in either direction
Quiescent ==
    \A c \in Clients : toServer[c] = <<>> /\ toClient[c] = <<>>

\* ------------------------------------------------- the portal math functions
\* a child of the scene: its parent's matrixWorld is the identity
IdentityPose == Pose(Vec(0, 0, 0), 0)
\* Object3D.matrixWorld: parent.matrixWorld * object.matrix
WorldPose(parent, obj) == Compose(parent, Pose(obj.pos, obj.yaw))
\* Vector3.multiplyScalar
VScale(k, v) == <<k * v[1], k * v[2], k * v[3]>>
\* Vector3.applyMatrix4 with the matrix of a rigid transform
ApplyPose(A, v) == VAdd(RotY(A.yaw, v), A.pos)

\* a THREE.Plane: normal . x + constant = 0
Plane(normal, constant) == [normal |-> normal, constant |-> constant]
\* Plane.setFromNormalAndCoplanarPoint
SetFromNormalAndCoplanarPoint(normal, point) == Plane(normal, 0 - VDot(point, normal))
\* Plane.coplanarPoint (the normal has length 1)
CoplanarPoint(plane) == VScale(0 - plane.constant, plane.normal)
\* Plane.distanceToPoint
PlaneDistance(plane, point) == VDot(plane.normal, point) + plane.constant

\* getPlaneFromObject(object) for an object that is a child of parent: the
\* normal is turned by object.quaternion, the object's own rotation; the
\* point is object.getWorldPosition()
GetPlaneFromObject(parent, obj) ==
    SetFromNormalAndCoplanarPoint(PlaneNormal(obj), WorldPose(parent, obj).pos)

\* a Matrix4 as its four rows; the matrix of a rigid pose (makeRotationY and
\* the translation column)
Cos4(k) == CASE k % 4 = 0 -> 1 [] k % 4 = 1 -> 0 [] k % 4 = 2 -> 0 - 1 [] k % 4 = 3 -> 0
Sin4(k) == CASE k % 4 = 0 -> 0 [] k % 4 = 1 -> 1 [] k % 4 = 2 -> 0 [] k % 4 = 3 -> 0 - 1
MatrixOf(A) ==
    << <<Cos4(A.yaw), 0, Sin4(A.yaw), A.pos[1]>>,
       <<0, 1, 0, A.pos[2]>>,
       <<0 - Sin4(A.yaw), 0, Cos4(A.yaw), A.pos[3]>>,
       <<0, 0, 0, 1>> >>
IdentityMatrix ==
    << <<1, 0, 0, 0>>, <<0, 1, 0, 0>>, <<0, 0, 1, 0>>, <<0, 0, 0, 1>> >>
Dot4(a, b) == a[1] * b[1] + a[2] * b[2] + a[3] * b[3] + a[4] * b[4]
Column(M, j) == <<M[1][j], M[2][j], M[3][j], M[4][j]>>
\* Matrix4.multiply
MatMul(A, B) == [i \in 1 .. 4 |-> [j \in 1 .. 4 |-> Dot4(A[i], Column(B, j))]]

\* a projection matrix whose rows 1, 2 and 4 are those of a symmetric
\* perspective frustum and whose third row is r3 / den; den = 0 stands for
\* a row that is not finite
Projection(r1, r2, r3, r4, den) ==
    [r1 |-> r1, r2 |-> r2, r3 |-> r3, r4 |-> r4, den |-> den]
\* PerspectiveCamera.updateProjectionMatrix: x scale, y scale and the two
\* depth entries -(far + near) / (far - near), -2 far near / (far - near)
Perspective(sx, sy, A, B) ==
    Projection(<<sx, 0, 0, 0>>, <<0, sy, 0, 0>>, <<0, 0, A, B>>, <<0, 0, 0 - 1, 0>>, 1)
\* Math.sign
Sign(x) == IF x > 0 THEN 1 ELSE IF x < 0 THEN 0 - 1 ELSE 0

\* _clipPlaneCam: the world plane in the space of the camera; the view
\* matrix is the inverse of the camera's pose, its normal matrix its rotation
ClipPlaneCam(cam, plane) ==
    LET view == Inverse(Pose(cam.pos, cam.yaw))
        n == RotY(view.yaw, plane.normal)
        p == ApplyPose(view, CoplanarPoint(plane))
    IN <<n[1], n[2], n[3], 0 - VDot(n, p)>>

\* _q = (sign(C.x), sign(C.y), 1, 1).applyMatrix4(_invProj), times QScale(P)
QCorner(P, C) ==
    LET a == P.r1[1]
        b == P.r2[2]
        c == P.r3
    IN << b * c[4] * Sign(C[1]),
          a * c[4] * Sign(C[2]),
          0 - (a * b * c[4]),
          a * b * P.den - b * c[1] * Sign(C[1]) - a * c[2] * Sign(C[2]) + a * b * c[3] >>
QScale(P) == P.r1[1] * P.r2[2] * P.r3[4]

\* mutant: the fourth row is not subtracted from the scaled plane
ObliqueProjection_NoRow4(P, C) ==
    LET dq == Dot4(C, QCorner(P, C))
    IN IF dq = 0
       THEN [P EXCEPT !.r3 = <<0, 0, 0, 0>>, !.den = 0]
       ELSE [P EXCEPT !.r3 = [i \in 1 .. 4 |-> 2 * QScale(P) * C[i]],
                      !.den = dq]

\* the projection applyObliqueClipping writes: scale = 2 / C.q, the third
\* row becomes scale * C - (fourth row); the other rows are not assigned.
\* With C.q = dq / QScale the row is (2 QScale C - dq r4) / dq.
ObliqueProjection(P, C) ==
    LET dq == Dot4(C, QCorner(P, C))
    IN IF dq = 0
       THEN [P EXCEPT !.r3 = <<0, 0, 0, 0>>, !.den = 0]
       ELSE [P EXCEPT !.r3 = [i \in 1 .. 4 |-> 2 * QScale(P) * C[i] - dq * P.r4[i]],
                      !.den = dq]

\* Vector3.applyMatrix4(projection) on a point of camera space, before the
\* division by w: z is the third component times P.den
ClipZ(P, v) == Dot4(P.r3, <<v[1], v[2], v[3], 1>>)
ClipW(P, v) == Dot4(P.r4, <<v[1], v[2], v[3], 1>>)

\* ------------------------------------------- the inputs of the portal math
Coords == (0 - MaxCoord) .. MaxCoord
Yaws == 0 .. 3
\* cameras at eye height 0 anywhere on the grid
CameraPoses == { Camera(Vec(t[1], 0, t[2]), t[3], 0) : t \in Coords \X Coords \X Yaws }
\* portal surfaces and reference points: on the X axis, on the floor or above
ObjectPoses == { Object3D(Vec(t[1], t[2], 0), t[3]) : t \in {0, MaxCoord} \X {0, 1} \X Yaws }
\* the parents an object can hang under: the scene itself, or a group that
\* is moved and turned
ParentPoses == { Pose(Vec(t[1], 0, 0), t[2]) : t \in {0, MaxCoord} \X Yaws }
\* the points handed to isPointInFrontOfPortal
Points == { Vec(t[1], t[2], t[3]) : t \in Coords \X Coords \X Coords }
\* unit normals along the axes, and the planes at small distances
AxisNormals == { Vec(1, 0, 0), Vec(0 - 1, 0, 0), Vec(0, 1, 0), Vec(0, 0 - 1, 0),
                 Vec(0, 0, 1), Vec(0, 0, 0 - 1) }
Planes3 == { Plane(t[1], t[2]) : t \in AxisNormals \X Coords }
\* perspective projections with whole entries: 90 and 53 degrees, near and
\* far 1 and 3 or 1 and 2
Perspectives == { Perspective(t[1], t[1], t[2][1], t[2][2]) :
                    t \in {1, 2} \X { <<0 - 2, 0 - 3>>, <<0 - 3, 0 - 4>> } }

PoseCalls ==
    { [fn |-> "updatePortalCamera", camera |-> t[1], portal |-> t[2], reference |-> t[3]] :
        t \in CameraPoses \X ObjectPoses \X ObjectPoses }
PlaneCalls ==
    { [fn |-> "getPlaneFromObject", object |-> t[1], parent |-> t[2]] :
        t \in ObjectPoses \X ParentPoses }
FrontCalls ==
    { [fn |-> "isPointInFrontOfPortal", portal |-> Object3D(Vec(0, 0, 0), t[1]), point |-> t[2]] :
        t \in Yaws \X Points }
ClipCalls ==
    { [fn |-> "applyObliqueClipping", camera |-> t[1], projection |-> t[2], plane |-> t[3]] :
        t \in { c \in CameraPoses : c.pos[1] \in {0, MaxCoord} /\ c.pos[3] \in {0, MaxCoord} }
              \X Perspectives \X Planes3 }

\* one call of one function on one tuple of arguments
MathInit ==
    /\ NetInit
    /\ RendererInit
    /\ recursionDepth = DefaultRecursionDepth
    /\ portalCameras = [i \in 1 .. DefaultRecursionDepth |-> NewCamera]
    /\ enabled = TRUE
    /\ mainCamera = NewCamera
    /\ referencePoint = NoObject
    /\ callArgs \in PoseCalls \cup PlaneCalls \cup FrontCalls \cup ClipCalls
    /\ viewPortal = IF callArgs.fn = "isPointInFrontOfPortal" THEN callArgs.portal
                                                               ELSE NoObject
    /\ callResult = NoResult
    /\ portals = <<>>
    /\ portalIdx = 0

CallUpdatePortalCamera ==
    /\ callArgs.fn = "updatePortalCamera"
    /\ ~callResult.done
    /\ callResult' = [done |-> TRUE,
                      camera |-> UpdatePortalCamera(callArgs.camera, callArgs.portal,
                                                    callArgs.reference)]
    /\ UNCHANGED <<callArgs, portalState, netVars, pairVars>>

CallGetPlaneFromObject ==
    /\ callArgs.fn = "getPlaneFromObject"
    /\ ~callResult.done
    /\ callResult' = [done |-> TRUE,
                      plane |-> GetPlaneFromObject(callArgs.parent, callArgs.object)]
    /\ UNCHANGED <<callArgs, portalState, netVars, pairVars>>

CallIsPointInFrontOfPortal ==
    /\ callArgs.fn = "isPointInFrontOfPortal"
    /\ ~callResult.done
    /\ callResult' = [done |-> TRUE, front |-> IsPointInFrontOfPortal(callArgs.point)]
    /\ UNCHANGED <<callArgs, portalState, netVars, pairVars>>

CallApplyObliqueClipping ==
    /\ callArgs.fn = "applyObliqueClipping"
    /\ ~callResult.done
    /\ callResult' = [done |-> TRUE,
                      projection |-> ObliqueProjection(callArgs.projection,
                                         ClipPlaneCam(callArgs.camera, callArgs.plane))]
    /\ UNCHANGED <<callArgs, portalState, netVars, pairVars>>

MathNext ==
    \/ CallUpdatePortalCamera
    \/ CallGetPlaneFromObject
    \/ CallIsPointInFrontOfPortal
    \/ CallApplyObliqueClipping

MathSpec == MathInit /\ [][MathNext]_vars

\* a call of fn has returned
Returned(fn) == callArgs.fn = fn /\ callResult.done

\* ------------------------------------- the portal-pair manager (portal.js)
\* a Portal: its mesh and its enabled flag; createPortalPair links the two
\* portals of a pair to each other
Portal(mesh, en) == [mesh |-> mesh, enabled |-> en]
\* portal.linkedPortal, as an index of this.portals
LinkedPortal(i) == IF i % 2 = 1 THEN i + 1 ELSE i - 1
\* Portal.isPointInFront
IsPointInFront(portal, point) == DistanceToPoint(portal.mesh, point) > 0
\* the meshes handed to createPortalPair: one at x = -3 facing +X, the other
\* at x = +3 facing -X (the camera at the origin is in front of both) or
\* facing +X (the camera is behind it)
PairMeshes == { <<Object3D(Vec(0 - 3, 0, 0), 1), Object3D(Vec(3, 0, 0), 3)>>,
                <<Object3D(Vec(0 - 3, 0, 0), 1), Object3D(Vec(3, 0, 0), 1)>> }

\* an entry of the log of a frame of the pair manager: the submission, the
\* portal it belongs to (0: none), the fragments the rasteriser produced and
\* the pixels where they passed the stencil and the depth test
PairEntry(op, i, frags, passed) ==
    [op |-> op, portal |-> i, frags |-> frags, passed |-> passed]
Passed(frags, mat, B) ==
    { p \in DOMAIN frags : /\ StencilTest(mat.stencil, B.stencil[p])
                           /\ DepthTest(mat, frags[p], B.depth[p]) }

\* the manager as constructed with options.recursionDepth = 1: no portals,
\* one portal camera
PairInit ==
    /\ NetInit
    /\ RendererInit
    /\ callArgs = NoCall
    /\ callResult = NoResult
    /\ recursionDepth = 1
    /\ portalCameras = <<NewCamera>>
    /\ enabled = TRUE
    /\ mainCamera = Camera(Vec(0, 0, 0), 1, 0)
    /\ viewPortal = NoObject
    /\ referencePoint = NoObject
    /\ portals = <<>>
    /\ portalIdx = 0

\* createPortalPair(meshA, meshB, options)
CreatePortalPair(meshes, en) ==
    /\ pc = "idle"
    /\ Len(portals) < 2 * MaxPairs
    /\ portals' = portals \o <<Portal(meshes[1], en), Portal(meshes[2], en)>>
    /\ UNCHANGED <<portalIdx, portalState, netVars, mathVars>>

\* render() with the manager disabled or without portals
PairRenderPlain ==
    /\ pc = "idle"
    /\ ~enabled \/ Len(portals) = 0
    /\ \E sf \in SceneFrags :
         LET mat == SceneMaterial(sceneStencil)
             r == Draw(sf, mat, <<0>>, Planes(autoClear))
         IN /\ stencil' = r.stencil
            /\ depth' = r.depth
            /\ color' = r.color
            /\ log' = <<PairEntry("plain", 0, sf, Passed(sf, mat, Planes(autoClear)))>>
    /\ path' = "pairPlain"
    /\ pc' = "returned"
    /\ UNCHANGED <<managerVars, portalVars, sceneStencil, autoClear, level, portalFrags>>
    /\ UNCHANGED <<portals, portalIdx, netVars, mathVars>>

\* render(): autoClear off, the full clear, the loop over this.portals starts;
\* the frame is explored for recursionDepth 1, where step 5 makes no call
PairRender ==
    /\ pc = "idle"
    /\ enabled
    /\ Len(portals) > 0
    /\ recursionDepth = 1
    /\ autoClear' = FALSE
    /\ stencil' = ClearedStencil
    /\ depth' = ClearedDepth
    /\ color' = ClearedColor
    /\ log' = <<>>
    /\ portalFrags' = <<>>
    /\ path' = "pair"
    /\ pc' = "pairLoop"
    /\ portalIdx' = 1
    /\ level' = 0
    /\ UNCHANGED <<managerVars, portalVars, sceneStencil, portals, netVars, mathVars>>

\* for (const portal of this.portals): a portal that is disabled, unlinked
\* or seen from behind is skipped
PairLoop ==
    /\ pc = "pairLoop"
    /\ IF portalIdx > Len(portals)
       THEN /\ pc' = "pairFinal"
            /\ portalIdx' = portalIdx
       ELSE IF /\ portals[portalIdx].enabled
               /\ IsPointInFront(portals[portalIdx], mainCamera.pos)
            THEN /\ pc' = IF level >= recursionDepth THEN "pairLoop" ELSE "pairMark"
                 /\ portalIdx' = IF level >= recursionDepth THEN portalIdx + 1
                                                            ELSE portalIdx
            ELSE /\ pc' = "pairLoop"
                 /\ portalIdx' = portalIdx + 1
    /\ UNCHANGED <<managerVars, portalVars, sceneStencil, autoClear, bufferVars>>
    /\ UNCHANGED <<level, portalFrags, path, log, portals, netVars, mathVars>>

\* step 1 of _renderPortalWithMaterialStencil: the portal mesh alone, from
\* the main camera, marks the stencil where it equals level
PairMark ==
    /\ pc = "pairMark"
    /\ \E pf \in PortalFrags :
         LET mat == StencilWriterMat(level)
             r == Draw(pf, mat, <<0>>, Planes(autoClear))
         IN /\ stencil' = r.stencil
            /\ depth' = r.depth
            /\ color' = r.color
            /\ portalFrags' = Append(portalFrags, pf)
            /\ log' = Append(log, PairEntry("mark", portalIdx, pf,
                                            Passed(pf, mat, Planes(autoClear))))
    /\ pc' = "pairDraw"
    /\ UNCHANGED <<managerVars, portalVars, sceneStencil, autoClear, level, path>>
    /\ UNCHANGED <<portals, portalIdx, netVars, mathVars>>

\* steps 2 to 4: the portal camera is solved from the main camera, the
\* portal's mesh and the linked portal's mesh and clipped; renderer.clearDepth()
\* clears the whole depth plane; the scene is drawn where the stencil equals
\* level + 1
PairDraw ==
    /\ pc = "pairDraw"
    /\ portalCameras' = << ApplyObliqueClipping(
                              UpdatePortalCamera(mainCamera, portals[portalIdx].mesh,
                                                 portals[LinkedPortal(portalIdx)].mesh)) >>
    /\ \E sf \in SceneFrags :
         LET B == [Planes(autoClear) EXCEPT !.depth = ClearedDepth]
             mat == SceneMaterial(SceneStencilTest(level + 1))
             r == Draw(sf, mat, <<portalIdx>>, B)
         IN /\ stencil' = r.stencil
            /\ depth' = r.depth
            /\ color' = r.color
            /\ log' = log \o << PairEntry("clearDepth", portalIdx, <<>>, {}),
                                PairEntry("draw", portalIdx, sf, Passed(sf, mat, B)) >>
    /\ sceneStencil' = ClearedSceneStencil(SceneStencilTest(level + 1))
    /\ pc' = "pairRestore"
    /\ UNCHANGED <<enabled, recursionDepth, mainCamera, viewPortal, referencePoint>>
    /\ UNCHANGED <<portalVars, autoClear, level, portalFrags, path>>
    /\ UNCHANGED <<portals, portalIdx, netVars, mathVars>>

\* step 6: the portal mesh alone, writing depth, takes the mark back; the
\* loop of render() goes on with the next portal
PairRestore ==
    /\ pc = "pairRestore"
    /\ LET pf == portalFrags[Len(portalFrags)]
           mat == DepthOnlyMat(level)
           r == Draw(pf, mat, <<0>>, Planes(autoClear))
       IN /\ stencil' = r.stencil
          /\ depth' = r.depth
          /\ color' = r.color
          /\ log' = Append(log, PairEntry("restore", portalIdx, pf,
                                          Passed(pf, mat, Planes(autoClear))))
    /\ pc' = "pairLoop"
    /\ portalIdx' = portalIdx + 1
    /\ UNCHANGED <<managerVars, portalVars, sceneStencil, autoClear, level, portalFrags, path>>
    /\ UNCHANGED <<portals, netVars, mathVars>>

\* the end of render(): the main scene where the stencil is 0
PairFinal ==
    /\ pc = "pairFinal"
    /\ \E sf \in SceneFrags :
         LET mat == SceneMaterial(SceneStencilTest(0))
             r == Draw(sf, mat, <<0>>, Planes(autoClear))
         IN /\ stencil' = r.stencil
            /\ depth' = r.depth
            /\ color' = r.color
            /\ log' = Append(log, PairEntry("final", 0, sf, Passed(sf, mat, Planes(autoClear))))
    /\ sceneStencil' = ClearedSceneStencil(SceneStencilTest(0))
    /\ autoClear' = TRUE
    /\ pc' = "returned"
    /\ UNCHANGED <<managerVars, portalVars, level, portalFrags, path>>
    /\ UNCHANGED <<portals, portalIdx, netVars, mathVars>>

PairNext ==
    \/ \E meshes \in PairMeshes : \E en \in BOOLEAN : CreatePortalPair(meshes, en)
    \/ PairRenderPlain
    \/ PairRender
    \/ PairLoop
    \/ PairMark
    \/ PairDraw
    \/ PairRestore
    \/ PairFinal
    \/ Present

PairSpec == PairInit /\ [][PairNext]_vars

\* ------------------------------------------------------- reading the log
\* the entries of the log with step op at level lvl
EntriesOf(op, lvl) == { i \in DOMAIN log : log[i].op = op /\ log[i].level = lvl }
CallsAt(lvl) == Cardinality(EntriesOf("call", lvl))
MarksAt(lvl) == Cardinality(EntriesOf("mark", lvl))
RestoresAt(lvl) == Cardinality(EntriesOf("restore", lvl))
Levels == 0 .. MaxRecursionDepth
\* render() has returned from the portal path
PortalFrameDone == pc = "returned" /\ path = "portal"
\* render() is between its first and its last step on the portal path
MidRender == pc \in {"mark", "solve", "clip", "draw", "recurse", "restore", "final"}

\* C1: when render() returns from the portal path, the stencil value of
\* every pixel is 0 (every mark increment has been undone by a restore).
C1_StencilConservation ==
    PortalFrameDone => \A p \in Pixels : stencil[p] = 0

\* C2: in one render() call every level performs as many mark passes as
\* restore passes, and a level that is entered performs exactly one of each.
C2_MarkRestoreBalance ==
    PortalFrameDone =>
        \A lvl \in Levels :
            /\ MarksAt(lvl) = RestoresAt(lvl)
            /\ CallsAt(lvl) >= 1 => (MarksAt(lvl) = 1 /\ RestoresAt(lvl) = 1)
            /\ CallsAt(lvl) = 0 => MarksAt(lvl) = 0

C2_Witness ==
    /\ PortalFrameDone
    /\ MarksAt(0) = 1 /\ MarksAt(1) = 1 /\ MarksAt(2) = 1
    /\ RestoresAt(2) = 1

\* C3: when enabled is false, or no portal / reference point is set, or the
\* main camera is not strictly in front of the portal plane, render()
\* submits the scene once from the main camera and does nothing else: no
\* clear call, no mark or restore pass, no change to the scene materials'
\* stencil state, to the portal surface or to renderer.autoClear.
C3_PlainCondition ==
    \/ ~enabled
    \/ ~viewPortal.set
    \/ ~referencePoint.set
    \/ DistanceToPoint(viewPortal, mainCamera.pos) <= 0

C3_PlainFallback ==
    [][ (pc = "idle" /\ pc' # "idle" /\ C3_PlainCondition) =>
            /\ pc' = "returned"
            /\ path' = "plain"
            /\ Len(log') = 1
            /\ log'[1].op = "plain"
            /\ log'[1].scene = "main"
            /\ log'[1].cam = 0
            /\ UNCHANGED <<managerVars, portalVars, sceneStencil, autoClear>>
      ]_vars

C3_Witness ==
    /\ pc = "returned"
    /\ path = "plain"
    /\ enabled
    /\ viewPortal.set
    /\ referencePoint.set
    /\ DistanceToPoint(viewPortal, mainCamera.pos) = 0

\* C4: on the portal path render() clears colour, depth and stencil once,
\* before every draw; then runs level 0 from the main camera; then submits
\* the main scene once from the main camera, as the last submission, with
\* the scene materials testing stencil = 0 and the portal surface hidden.
C4_PortalComposition ==
    /\ (path = "portal" /\ pc = "mark" /\ level = 0) =>
            /\ stencil = ClearedStencil
            /\ depth = ClearedDepth
            /\ color = ClearedColor
    /\ PortalFrameDone =>
            /\ Len(log) >= 3
            /\ \A i \in DOMAIN log : (log[i].op = "clear") <=> (i = 1)
            /\ log[2].op = "call" /\ log[2].level = 0 /\ log[2].cam = 0
            /\ CallsAt(0) = 1
            /\ log[3].op = "mark" /\ log[3].level = 0 /\ log[3].cam = 0
            /\ LET last == log[Len(log)]
               IN /\ last.op = "final"
                  /\ last.scene = "main"
                  /\ last.cam = 0
                  /\ last.sceneStencil.stencilWrite
                  /\ last.sceneStencil.stencilFunc = "equal"
                  /\ last.sceneStencil.stencilRef = 0
                  /\ ~last.portalVisible
            /\ Cardinality({ i \in DOMAIN log :
                               log[i].scene = "main" /\ log[i].cam = 0 }) = 1

C4_Witness ==
    /\ PortalFrameDone
    /\ CallsAt(1) = 1
    /\ log[Len(log)].op = "final"

\* C5: the levels a render() call enters are 0 .. k-1 with
\* 1 <= k <= recursionDepth, each entered once; no step of a level
\* L >= recursionDepth happens; render() takes a bounded number of steps and
\* is never stuck before it returns.
C5_DepthBound ==
    (path = "portal" /\ pc # "idle") =>
        /\ \A i \in DOMAIN log :
              log[i].op \notin {"clear", "final"} => log[i].level < recursionDepth
        /\ CallsAt(0) = 1
        /\ \A lvl \in 1 .. recursionDepth :
              /\ CallsAt(lvl) <= 1
              /\ CallsAt(lvl) = 1 => CallsAt(lvl - 1) = 1
        /\ Len(log) <= 2 + 7 * recursionDepth
        /\ MidRender => ENABLED RenderStep

C5_Witness ==
    /\ PortalFrameDone
    /\ recursionDepth = 3
    /\ CallsAt(2) = 1
    /\ RestoresAt(0) = 1

\* C6: level L + 1 is entered exactly when L + 1 < recursionDepth and the
\* portal camera computed at level L is strictly in front of the portal
\* plane; when the camera computed at level 1 is behind the plane there is
\* no level 2 and the restores of levels 1 and 0 still run.
C6_RecursionPruning ==
    PortalFrameDone =>
        /\ \A lvl \in 0 .. (MaxRecursionDepth - 1) :
              (CallsAt(lvl + 1) = 1) <=>
                  /\ CallsAt(lvl) = 1
                  /\ lvl + 1 < recursionDepth
                  /\ DistanceToPoint(viewPortal, portalCameras[lvl + 1].pos) > 0
        /\ (CallsAt(1) = 1 /\ DistanceToPoint(viewPortal, portalCameras[2].pos) <= 0) =>
              /\ CallsAt(2) = 0
              /\ RestoresAt(1) = 1
              /\ RestoresAt(0) = 1

C6_Witness ==
    /\ PortalFrameDone
    /\ recursionDepth = 3
    /\ CallsAt(1) = 1
    /\ DistanceToPoint(viewPortal, portalCameras[2].pos) < 0
    /\ CallsAt(2) = 0
    /\ RestoresAt(1) = 1

\* C7: portal surface at x = -3 facing +X, reference point at x = +3 facing
\* -X, recursionDepth = 3, main camera at the origin facing the portal: one
\* render() enters levels 0, 1, 2 and no other, and each level's portal
\* camera is offset from the previous level's camera by the same vector.
C7_Scenario ==
    /\ viewPortal = Object3D(Vec(0 - 3, 0, 0), 1)
    /\ referencePoint = Object3D(Vec(3, 0, 0), 3)
    /\ recursionDepth = 3
    /\ mainCamera = Camera(Vec(0, 0, 0), 1, 0)

C7_EndToEnd ==
    (PortalFrameDone /\ C7_Scenario) =>
        /\ Cardinality({ i \in DOMAIN log : log[i].op = "call" }) = 3
        /\ CallsAt(0) = 1 /\ CallsAt(1) = 1 /\ CallsAt(2) = 1
        /\ VSub(portalCameras[2].pos, portalCameras[1].pos)
              = VSub(portalCameras[1].pos, mainCamera.pos)
        /\ VSub(portalCameras[3].pos, portalCameras[2].pos)
              = VSub(portalCameras[1].pos, mainCamera.pos)

C7_Witness ==
    /\ PortalFrameDone
    /\ C7_Scenario
    /\ MarksAt(2) = 1
    /\ portalCameras[3].pos # portalCameras[2].pos

\* C8: setRecursionDepth(n) leaves recursionDepth = min(10, max(1, n)) and a
\* pool of at least recursionDepth cameras; the cameras already in the pool
\* are kept and nothing else changes.
C8_SetRecursionDepth ==
    [][ \A n \in DepthArgs :
          SetRecursionDepth(n) =>
            /\ recursionDepth' = (IF n < 1 THEN 1 ELSE IF n > 10 THEN 10 ELSE n)
            /\ Len(portalCameras') >= recursionDepth'
            /\ Len(portalCameras') >= Len(portalCameras)
            /\ \A i \in DOMAIN portalCameras : portalCameras'[i] = portalCameras[i]
            /\ UNCHANGED <<enabled, mainCamera, viewPortal, referencePoint,
                           portalVars, sceneStencil, autoClear, bufferVars,
                           renderVars>>
      ]_vars

C8_Witness ==
    /\ pc = "idle"
    /\ recursionDepth = 10
    /\ Len(portalCameras) = 10
    /\ portalCameras[1] # NewCamera

\* C9: setEnabled changes the enabled flag only; a render() that starts
\* while enabled is false takes the plain path; a render() that has started
\* on the portal path leaves only through its final pass, and has then run
\* every level the depth and the prune allow, each with its mark and its
\* restore, whatever enabled became meanwhile.
C9_FrameGranularCancellation ==
    /\ [][ /\ (enabled' # enabled) =>
                 UNCHANGED <<recursionDepth, portalCameras, mainCamera, viewPortal,
                             referencePoint, portalVars, sceneStencil, autoClear,
                             bufferVars, renderVars>>
           /\ (pc = "idle" /\ pc' # "idle" /\ ~enabled) =>
                 (path' = "plain" /\ pc' = "returned")
           /\ (MidRender /\ pc' # pc) =>
                 /\ pc' \in {"mark", "solve", "clip", "draw", "recurse", "restore",
                             "final", "returned"}
                 /\ (pc' = "returned") => (pc = "final")
         ]_vars
    /\ [](PortalFrameDone =>
              /\ log[Len(log)].op = "final"
              /\ CallsAt(0) = 1
              /\ \A lvl \in 0 .. (MaxRecursionDepth - 1) :
                    /\ (CallsAt(lvl) = 1) => (MarksAt(lvl) = 1 /\ RestoresAt(lvl) = 1)
                    /\ (CallsAt(lvl + 1) = 1) <=>
                          /\ CallsAt(lvl) = 1
                          /\ lvl + 1 < recursionDepth
                          /\ DistanceToPoint(viewPortal, portalCameras[lvl + 1].pos) > 0)

C9_Witness ==
    /\ PortalFrameDone
    /\ ~enabled
    /\ MarksAt(1) = 1
    /\ RestoresAt(0) = 1

\* C10: after the restore pass of level 0 every pixel of the portal
\* silhouette holds the portal surface's depth as seen from the main camera,
\* so the final pass draws a main-scene fragment nearer than the portal
\* over that pixel and leaves the pixel alone for a fragment behind it.
C10_OcclusionAfterRestore ==
    (path = "portal" /\ pc = "final") =>
        \A p \in DOMAIN portalFrags[1] :
            /\ depth[p] = portalFrags[1][p]
            /\ \A sf \in SceneFrags :
                  LET r == Draw(sf, SceneMaterial(SceneStencilTest(0)), <<0>>,
                                Planes(autoClear))
                  IN /\ (p \in DOMAIN sf /\ sf[p] < portalFrags[1][p]) =>
                            r.color[p] = <<0>>
                     /\ (p \in DOMAIN sf /\ sf[p] > portalFrags[1][p]) =>
                            r.color[p] = color[p]

\* C11: the mark pass of level L sets to L + 1 exactly the pixels of the
\* portal silhouette (as drawn from the camera of level L) whose stencil
\* value is L and where the portal fragment passes the depth test against
\* the depth plane; at level 0 that is the whole silhouette; the stencil
\* value of no other pixel changes.
C11_MarkedSet ==
    [][ (pc = "mark" /\ pc' = "solve") =>
          LET pf == portalFrags'[level + 1]
              marked == { p \in DOMAIN pf : stencil[p] = level /\ pf[p] <= depth[p] }
          IN /\ \A p \in Pixels :
                   stencil'[p] = (IF p \in marked THEN level + 1 ELSE stencil[p])
             /\ { p \in Pixels : stencil'[p] = level + 1 } = marked
             /\ (level = 0) => (marked = DOMAIN pf)
      ]_vars

\* C11 as stated: right after the mark pass of level L the pixels with
\* stencil value L + 1 are exactly the silhouette of the portal surface.
C11_SilhouetteExact ==
    (path = "portal" /\ pc = "solve") =>
        { p \in Pixels : stencil[p] = level + 1 } = DOMAIN portalFrags[level + 1]

C11_Witness ==
    /\ path = "portal"
    /\ pc = "solve"
    /\ level = 1
    /\ "a" \in DOMAIN portalFrags[2]
    /\ stencil["a"] = 1
    /\ depth["a"] < portalFrags[2]["a"]

\* C12: when render() returns from the portal path the portal surface is
\* visible, carries the material it had when the portal was set up and is
\* attached to the main scene; when render() returns from the plain path
\* the portal surface is as it was before the call.
C12_TransientChanges ==
    /\ [](PortalFrameDone =>
              /\ portalVisible
              /\ portalMaterial = "original"
              /\ portalParent = "scene")
    /\ [][ (pc = "idle" /\ pc' = "returned") => UNCHANGED portalVars ]_vars

\* C12 as stated: whichever path render() took, the portal surface is then
\* visible, carries its original material and is attached to the main scene.
C12_AttachedOnReturn ==
    (pc = "returned") =>
        /\ portalVisible
        /\ portalMaterial = "original"
        /\ portalParent = "scene"

C12_Witness ==
    /\ PortalFrameDone
    /\ MarksAt(1) = 1
    /\ RestoresAt(1) = 1
    /\ RestoresAt(0) = 1
    /\ portalParent = "scene"

C14_UniqueProp ==
    \A c \in Clients :
        /\ (isConnected[c] /\ socketOf[c] \in players /\ toClient[c] = <<>>) =>
              \A d \in Clients \ {c} :
                  (socketOf[d] \in players) => (socketOf[d] \in remotePlayers[c])
        /\ isConnected[c] => localPlayerId[c] \notin remotePlayers[c]

\* the place in the log of the one step op of level lvl
PosOf(op, lvl) == CHOOSE i \in EntriesOf(op, lvl) : TRUE
\* the steps of one level, in the order of the code
LevelSteps == <<"mark", "solve", "clip", "clearDepth", "draw", "restore">>

\* C15: every level that is entered performs mark, pose solve, oblique clip,
\* depth clear, scene draw from its portal camera and restore, each once and
\* in this order; the clip works on the camera the pose solve wrote and the
\* draw uses it; every step of level L + 1 lies between the draw and the
\* restore of level L, so restores run deepest level first.
C15_StepOrder ==
    PortalFrameDone =>
        \A lvl \in 0 .. (recursionDepth - 1) :
            (CallsAt(lvl) = 1) =>
                /\ \A k \in DOMAIN LevelSteps :
                      Cardinality(EntriesOf(LevelSteps[k], lvl)) = 1
                /\ \A k \in 1 .. (Len(LevelSteps) - 1) :
                      PosOf(LevelSteps[k], lvl) < PosOf(LevelSteps[k + 1], lvl)
                /\ log[PosOf("solve", lvl)].cam = lvl + 1
                /\ log[PosOf("clip", lvl)].cam = lvl + 1
                /\ log[PosOf("draw", lvl)].cam = lvl + 1
                /\ log[PosOf("draw", lvl)].scene = "main"
                /\ \A i \in DOMAIN log :
                      (log[i].level = lvl + 1) =>
                          /\ PosOf("draw", lvl) < i
                          /\ i < PosOf("restore", lvl)

C15_Witness ==
    /\ PortalFrameDone
    /\ CallsAt(2) = 1
    /\ PosOf("restore", 2) < PosOf("restore", 1)
    /\ PosOf("restore", 1) < PosOf("restore", 0)
    /\ PosOf("draw", 1) < PosOf("mark", 2)

\* C16: the mark pass of level L changes the stencil value only at pixels
\* whose value before the pass is L, and there from L to L + 1; it changes
\* no pixel of the colour plane and no pixel of the depth plane.
C16_MarkPassEffect ==
    [][ (pc = "mark" /\ pc' = "solve") =>
          /\ \A p \in Pixels :
                (stencil'[p] # stencil[p]) =>
                    (stencil[p] = level /\ stencil'[p] = level + 1)
          /\ color' = color
          /\ depth' = depth
      ]_vars

C16_Witness ==
    /\ path = "portal"
    /\ pc = "solve"
    /\ level = 1
    /\ stencil["a"] = 2
    /\ depth["a"] = 2
    /\ color["a"] = <<1>>

\* C17: the scene submission of level L runs with the portal surface hidden
\* and the scene materials testing stencil = L + 1 with keep operations; it
\* leaves the stencil plane unchanged, and at a pixel whose stencil value is
\* not L + 1 it writes neither colour nor depth (the depth there is the one
\* the depth clear before the submission wrote).
C17_MaskedSceneDraw ==
    [][ (pc = "draw" /\ pc' = "recurse") =>
          LET e == log'[Len(log')]
          IN /\ e.op = "draw"
             /\ e.level = level
             /\ ~e.portalVisible
             /\ e.sceneStencil =
                   [stencilWrite |-> TRUE, stencilRef |-> level + 1,
                    stencilFunc |-> "equal", stencilFail |-> "keep",
                    stencilZFail |-> "keep", stencilZPass |-> "keep"]
             /\ stencil' = stencil
             /\ \A p \in Pixels :
                   (stencil[p] # level + 1) =>
                       (color'[p] = color[p] /\ depth'[p] = DepthClear)
      ]_vars

C17_Witness ==
    /\ path = "portal"
    /\ pc = "recurse"
    /\ level = 1
    /\ stencil["a"] = 2
    /\ color["a"] = <<2>>
    /\ depth["a"] < DepthClear

\* C18: the restore pass of level L turns the stencil value of every pixel
\* that holds L + 1 back to L and writes the portal surface's depth there;
\* it changes no pixel of the colour plane and leaves a pixel with any
\* other stencil value untouched in all three planes.
C18_RestorePassEffect ==
    [][ (pc = "restore" /\ <<pc, level>>' # <<pc, level>>) =>
          /\ \A p \in Pixels :
                /\ (stencil[p] = level + 1) =>
                      /\ p \in DOMAIN portalFrags[level + 1]
                      /\ stencil'[p] = level
                      /\ depth'[p] = portalFrags[level + 1][p]
                /\ (stencil[p] # level + 1) =>
                      (stencil'[p] = stencil[p] /\ depth'[p] = depth[p])
          /\ color' = color
      ]_vars

\* C19: level 0 marks, solves and restores with the main camera and level
\* L >= 1 with the pool camera that level L - 1 wrote; from the mark of a
\* level to its restore no step changes the pose or the projection of the
\* camera that level is rendered from.
C19_ViewCameraChain ==
    /\ [][ MidRender =>
              \A k \in 0 .. level :
                  IF k = 0 THEN mainCamera' = mainCamera
                           ELSE portalCameras'[k] = portalCameras[k]
         ]_vars
    /\ [](path = "portal" =>
              /\ \A i \in DOMAIN log :
                    (log[i].op \in {"mark", "restore"}) => (log[i].cam = log[i].level)
              /\ (pc = "clip") =>
                    LET view == IF level = 0 THEN mainCamera ELSE portalCameras[level]
                        m == PortalCameraPose(view, viewPortal, referencePoint)
                    IN /\ portalCameras[level + 1].pos = m.pos
                       /\ portalCameras[level + 1].yaw = m.yaw
                       /\ portalCameras[level + 1].oblique = view.oblique)

C19_Witness ==
    /\ path = "portal"
    /\ pc = "restore"
    /\ level = 1
    /\ RestoresAt(2) = 1
    /\ portalCameras[3] # portalCameras[1]
    /\ portalCameras[2] # portalCameras[1]

\* the pool camera k has been solved and then clipped in this render() call
WrittenBefore(k, n) ==
    \E i \in 1 .. n : \E j \in 1 .. n :
        /\ i < j
        /\ log[i].op = "solve" /\ log[i].cam = k
        /\ log[j].op = "clip" /\ log[j].cam = k

\* C20: in every render() call, whatever the pool holds from earlier
\* frames, a pool camera is used (for the scene submission of its level, for
\* the prune test, as the view camera of the next level's mark, pose solve
\* and restore) only after the pose solve and the oblique clip of this call
\* have written it.
C20_NoStaleReads ==
    (path = "portal" /\ pc # "idle") =>
        /\ \A i \in DOMAIN log :
              /\ (log[i].op = "draw") => WrittenBefore(log[i].cam, i - 1)
              /\ (log[i].op \in {"mark", "restore", "call"} /\ log[i].cam >= 1) =>
                    WrittenBefore(log[i].cam, i - 1)
              /\ (log[i].op = "solve" /\ log[i].level >= 1) =>
                    WrittenBefore(log[i].level, i - 1)
        /\ (pc \in {"draw", "recurse"}) => WrittenBefore(level + 1, Len(log))
        /\ (pc \in {"solve", "restore"} /\ level >= 1) => WrittenBefore(level, Len(log))

C20_Witness ==
    /\ PortalFrameDone
    /\ recursionDepth = 1
    /\ Len(portalCameras) >= 2
    /\ portalCameras[2] # NewCamera
    /\ portalCameras[2].pos # portalCameras[1].pos
    /\ Cardinality(EntriesOf("draw", 0)) = 1

\* C21: the projection the level-L portal camera holds right before its
\* oblique clip is a copy of the projection of the camera level L is rendered
\* from: the viewer's at level 0, and at level L >= 1 the projection of the
\* level L - 1 portal camera, which carries the L oblique clips of the
\* levels above.
C21_ProjectionCopied ==
    (path = "portal" /\ pc = "clip") =>
        /\ portalCameras[level + 1].oblique =
              (IF level = 0 THEN mainCamera.oblique ELSE portalCameras[level].oblique)
        /\ portalCameras[level + 1].oblique = mainCamera.oblique + level

\* C21 as stated: right before the oblique clip of any level the portal
\* camera holds the viewer's projection, with no oblique clip in it.
C21_ViewerProjection ==
    (path = "portal" /\ pc = "clip") =>
        portalCameras[level + 1].oblique = mainCamera.oblique

C21_Witness ==
    /\ path = "portal"
    /\ pc = "clip"
    /\ level = 2
    /\ mainCamera.oblique = 0
    /\ portalCameras[3].oblique = 2

\* the draw submissions of the portal path: renderer.render(scene, camera)
Submissions == {"mark", "draw", "restore", "final"}

\* C27: on the portal path every draw submission (mark, recursive scene
\* draw, restore, final pass) is issued while the renderer's autoClear is
\* false, so none of them clears a buffer on its own; autoClear stays false
\* between the steps and is true again when render() returns.
C27_NoImplicitClears ==
    /\ path = "portal" =>
          \A i \in DOMAIN log : log[i].op \in Submissions => ~log[i].autoClear
    /\ (path = "portal" /\ MidRender) => ~autoClear
    /\ PortalFrameDone => autoClear

C27_Witness ==
    /\ PortalFrameDone
    /\ autoClear
    /\ \A op \in Submissions : \E i \in DOMAIN log : log[i].op = op /\ ~log[i].autoClear
    /\ MarksAt(1) = 1

\* C28: during every mark pass and every restore pass the scene materials
\* have stencilWrite false; they have it true only while a recursive scene
\* draw or the final pass is submitted; between the steps of render() and
\* when render() returns they have it false again.
C28_SceneStencilOff ==
    /\ ~sceneStencil.stencilWrite
    /\ path = "portal" =>
          \A i \in DOMAIN log :
              /\ log[i].op \in {"mark", "restore"} => ~log[i].sceneStencil.stencilWrite
              /\ log[i].op \in {"draw", "final"} => log[i].sceneStencil.stencilWrite

C28_Witness ==
    /\ PortalFrameDone
    /\ ~sceneStencil.stencilWrite
    /\ MarksAt(1) = 1
    /\ RestoresAt(1) = 1
    /\ RestoresAt(0) = 1
    /\ \E i \in EntriesOf("draw", 1) : log[i].sceneStencil.stencilWrite
    /\ \E i \in EntriesOf("restore", 0) : ~log[i].sceneStencil.stencilWrite

\* C26: in every state reachable through the constructor, setupPortal,
\* setRecursionDepth, setEnabled, render and dispose the pool holds at least
\* recursionDepth cameras, and every level render() enters finds its camera
\* in the pool, so no render() is left by an exception.
C26_PoolCoversDepth ==
    /\ Len(portalCameras) >= recursionDepth
    /\ (path = "portal" /\ MidRender /\ pc # "final" /\ LevelRuns(level)) =>
          PoolIndex(level) \in DOMAIN portalCameras
    /\ path # "threw"

\* the matrix of a half turn about +Y, written out
HalfTurnMatrix ==
    << <<0 - 1, 0, 0, 0>>, <<0, 1, 0, 0>>, <<0, 0, 0 - 1, 0>>, <<0, 0, 0, 1>> >>
\* the matrix of an object's or a camera's pose
MatrixWorld(o) == MatrixOf(Pose(o.pos, o.yaw))
\* reference * rotate180 * inverse(portalSurface), as a product of matrices
ThroughPortal(portal, ref) ==
    MatMul(MatMul(MatrixWorld(ref), HalfTurnMatrix),
           MatrixOf(Inverse(Pose(portal.pos, portal.yaw))))

\* the pose part of C22, on the state after a call of updatePortalCamera
C22_Pose ==
    Returned("updatePortalCamera") =>
        LET cam == callArgs.camera
            portal == callArgs.portal
            ref == callArgs.reference
            out == callResult.camera
            inv == MatrixOf(Inverse(Pose(portal.pos, portal.yaw)))
        IN /\ MatMul(MatrixWorld(portal), inv) = IdentityMatrix
           /\ MatMul(inv, MatrixWorld(portal)) = IdentityMatrix
           /\ MatrixWorld(out) = MatMul(ThroughPortal(portal, ref), MatrixWorld(cam))
           /\ ThroughPortal(portal, ref) = IdentityMatrix =>
                 (out.pos = cam.pos /\ out.yaw = cam.yaw)

\* C22: for integer translations and quarter turns about the vertical axis,
\* updatePortalCamera gives the portal camera the world matrix
\* reference * rotate180 * inverse(portalSurface) * camera; when
\* reference * rotate180 * inverse(portalSurface) is the identity the portal
\* camera's pose is the input camera's; the call leaves the camera, the
\* portal surface and the reference point as they were.
C22_PoseSolve ==
    /\ []C22_Pose
    /\ [][callArgs.fn = "updatePortalCamera" => callArgs' = callArgs]_vars

C22_Witness ==
    /\ Returned("updatePortalCamera")
    /\ callArgs.portal = Object3D(Vec(MaxCoord, 1, 0), 1)
    /\ callArgs.reference = Object3D(Vec(MaxCoord, 1, 0), 3)
    /\ callArgs.camera = Camera(Vec(0 - 1, 0, 1), 2, 0)
    /\ ThroughPortal(callArgs.portal, callArgs.reference) = IdentityMatrix
    /\ callResult.camera.pos = Vec(0 - 1, 0, 1)
    /\ callResult.camera.yaw = 2

\* C23: for every object, also one that hangs under a moved or turned
\* parent, the plane getPlaneFromObject returns passes through the object's
\* world position and its normal is the object's local +Z axis turned by the
\* object's world orientation.
C23_PlaneFromWorldPose ==
    Returned("getPlaneFromObject") =>
        LET world == WorldPose(callArgs.parent, callArgs.object)
        IN /\ PlaneDistance(callResult.plane, world.pos) = 0
           /\ callResult.plane.normal = RotY(world.yaw, Vec(0, 0, 1))

\* local +Z after k quarter turns about +Y, written out
Forward(k) ==
    CASE k % 4 = 0 -> Vec(0, 0, 1)
      [] k % 4 = 1 -> Vec(1, 0, 0)
      [] k % 4 = 2 -> Vec(0, 0, 0 - 1)
      [] k % 4 = 3 -> Vec(0 - 1, 0, 0)

\* C24: for a portal surface at the origin turned by R, the signed distance
\* of a point p to the plane derived from it is Forward(R) . p, so it is
\* positive for R * (0,0,1) and negative for R * (0,0,-1);
\* isPointInFrontOfPortal(p) is true exactly when the signed distance of p
\* is strictly positive, and false for a point on the plane.
C24_PlaneSign ==
    Returned("isPointInFrontOfPortal") =>
        LET R == callArgs.portal.yaw
            p == callArgs.point
            d == PlaneDistance(GetPlaneFromObject(IdentityPose, callArgs.portal), p)
        IN /\ d = VDot(Forward(R), p)
           /\ callResult.front <=> d > 0
           /\ p = Forward(R) => (d > 0 /\ callResult.front)
           /\ p = VNeg(Forward(R)) => (d < 0 /\ ~callResult.front)
           /\ d = 0 => ~callResult.front

C24_Witness ==
    /\ Returned("isPointInFrontOfPortal")
    /\ callArgs.portal.yaw = 1
    /\ callArgs.point = Vec(1, 0, 0)
    /\ callResult.front

\* the points of the grid that lie on a plane
PointsOn(plane) == { x \in Points : PlaneDistance(plane, x) = 0 }
\* a point of the world in the space of a camera
InCameraSpace(cam, x) == ApplyPose(Inverse(Pose(cam.pos, cam.yaw)), x)

\* C25: after applyObliqueClipping(camera, plane) with a finite result,
\* every point of the plane projects to clip-space z = -w, the near-plane
\* boundary z/w = -1, for the six axis orientations of the plane; rows 1, 2
\* and 4 of the projection are those it had before the call.  (The corner
\* _q is the preimage of (sign, sign, 1, 1) under the old projection, and
\* the plane handed over contains the points of the plane in camera space.)
C25_ClippingCorrect ==
    (Returned("applyObliqueClipping") /\ callResult.projection.den # 0) =>
        LET P == callArgs.projection
            Q == callResult.projection
            C == ClipPlaneCam(callArgs.camera, callArgs.plane)
            q == QCorner(P, C)
        IN /\ Dot4(P.r1, q) = Sign(C[1]) * QScale(P)
           /\ Dot4(P.r2, q) = Sign(C[2]) * QScale(P)
           /\ Dot4(P.r3, q) = QScale(P) * P.den
           /\ Dot4(P.r4, q) = QScale(P)
           /\ \A x \in PointsOn(callArgs.plane) : 
                 LET v == InCameraSpace(callArgs.camera, x)
                 IN Dot4(C, <<v[1], v[2], v[3], 1>>) = 0
           /\ \A x \in PointsOn(callArgs.plane) :
                 LET v == InCameraSpace(callArgs.camera, x)
                 IN ClipZ(Q, v) = (0 - ClipW(Q, v)) * Q.den
           /\ Q.r1 = P.r1
           /\ Q.r2 = P.r2
           /\ Q.r4 = P.r4

C25_Witness ==
    /\ Returned("applyObliqueClipping")
    /\ callResult.projection.den # 0
    /\ callArgs.plane.normal = Vec(0, 1, 0)
    /\ callArgs.camera.yaw = 1
    /\ \E x \in PointsOn(callArgs.plane) :
          ClipW(callResult.projection, InCameraSpace(callArgs.camera, x)) > 0
    /\ callResult.projection.r3 # callArgs.projection.r3
    /\ Cardinality({ n \in AxisNormals :
            \E c \in ClipCalls :
                /\ c.plane.normal = n
                /\ ObliqueProjection(c.projection,
                                     ClipPlaneCam(c.camera, c.plane)).den # 0 }) >= 5

\* the server handles an event of one of the given names, emitted by the
\* socket of client c
Handles(c, types) ==
    /\ toServer[c] # <<>>
    /\ Head(toServer[c]).type \in types
    /\ socketOf'[c] = socketOf[c]
    /\ toServer'[c] = Tail(toServer[c])

\* C30: the players map holds exactly the ids of the open sockets on which
\* the server has handled a 'player-join', one entry per socket; handling a
\* 'player-move' or a 'chat-message' of a socket that has no entry leaves
\* the map as it is and emits no event to any socket.
C30_PlayerRegistry ==
    /\ [](players = { socketOf[c] : c \in { d \in Clients : joinHandled[d] } })
    /\ [](\A c \in Clients : joinHandled[c] => socketOf[c] # 0)
    /\ [](\A c, d \in Clients : (c # d /\ socketOf[c] # 0) => socketOf[c] # socketOf[d])
    /\ [][\A c \in Clients :
            (Handles(c, {"player-move", "chat-message"}) /\ socketOf[c] \notin players) =>
                (players' = players /\ toClient' = toClient)]_vars

C30_Witness ==
    /\ socketOf["c1"] # 0
    /\ socketOf["c2"] # 0
    /\ joinHandled["c1"]
    /\ ~joinHandled["c2"]
    /\ players = {socketOf["c1"]}
    /\ toServer["c2"] # <<>>
    /\ Head(toServer["c2"]).type = "chat-message"
    /\ nextSocket > 3

\* the entries of the pair manager's log for submission op of portal i
PairEntries(op, i) == { k \in DOMAIN log : log[k].op = op /\ log[k].portal = i }
\* the pair manager's render() has returned from the portal path
PairFrameDone == pc = "returned" /\ path = "pair"
\* the view through portal i was drawn at pixel p, inside its silhouette
ViewDrawn(i, p) ==
    /\ \E k \in PairEntries("mark", i) : p \in log[k].passed
    /\ \E k \in PairEntries("draw", i) : p \in log[k].passed
\* step 6 of portal i put the depth of its surface back at pixel p
DepthRestored(i, p) == \E k \in PairEntries("restore", i) : p \in log[k].passed
\* the final pass has no geometry at p in front of the surface of portal i
NothingInFront(i, p) ==
    \A k \in PairEntries("final", 0) : \A m \in PairEntries("mark", i) :
        p \in DOMAIN log[k].frags => log[k].frags[p] > log[m].frags[p]

\* C29: when the pair manager's render() returns, a pixel at which the view
\* through a portal was drawn inside that portal's silhouette and the
\* portal's depth was restored, which no later portal's view was drawn over
\* and where the main scene has nothing in front of the portal's surface,
\* still shows that view.
C29_EarlierViewSurvives ==
    PairFrameDone =>
        \A i \in 1 .. Len(portals) : \A p \in Pixels :
            ( /\ ViewDrawn(i, p)
              /\ DepthRestored(i, p)
              /\ \A j \in (i + 1) .. Len(portals) : ~ViewDrawn(j, p)
              /\ NothingInFront(i, p) ) => color[p] = <<i>>

====
